---------------------------- MODULE Spec2Model ----------------------------
(***************************************************************************)
(* Model of the bibliography style of docs/conf.py: the et_al and names    *)
(* template nodes, the MyStyle formatting methods and the two string       *)
(* clean-up helpers.                                                       *)
(*                                                                         *)
(* A string is a sequence of one-character strings.  A rich text is a      *)
(* sequence of styled characters [c, tag], tag being "" or "em"; a link    *)
(* is a record [kind = "href", url, text].  Formatting a template node on  *)
(* an entry either yields a fragment or raises FieldIsMissing, which is a  *)
(* result of kind "error".                                                 *)
(***************************************************************************)
EXTENDS Integers, Sequences, FiniteSets, TLC

VARIABLES
    entries,   \* the loaded bibliography: entry key -> Entry
    call,      \* the formatting call made last
    result,    \* what that call produced (a fragment or an error)
    first      \* history: the first call ever made, what it produced, and
               \* whether another entry has been formatted since

vars == <<entries, call, result, first>>

-----------------------------------------------------------------------------
(* Bounds of the model *)

MaxPersons == 4
MaxUrlPieces == 3
MaxIsbnLen == 4

-----------------------------------------------------------------------------
(* Strings *)

HTTPS == <<"h", "t", "t", "p", "s", ":", "/", "/">>
HTTP == <<"h", "t", "t", "p", ":", "/", "/">>
ISBN_SEARCH ==
    <<"h", "t", "t", "p", "s", ":", "/", "/", "i", "s", "b", "n", "s", "e",
      "a", "r", "c", "h", ".", "o", "r", "g", "/", "i", "s", "b", "n", "/">>
ISBN_LABEL == <<"I", "S", "B", "N", ":">>
ARXIV_ABS ==
    <<"h", "t", "t", "p", "s", ":", "/", "/", "a", "r", "x", "i", "v", ".",
      "o", "r", "g", "/", "a", "b", "s", "/">>
ARXIV_LABEL == <<"a", "r", "X", "i", "v", ":">>
DOI_ORG ==
    <<"h", "t", "t", "p", "s", ":", "/", "/", "d", "o", "i", ".", "o", "r",
      "g", "/">>
DOI_LABEL == <<"d", "o", "i", ":">>
SEP == <<",", " ">>
SEP2 == <<" ", "a", "n", "d", " ">>
LAST_SEP == <<",", " ", "a", "n", "d", " ">>
ET_AL == <<" ", "e", "t", " ", "a", "l">>

\* str.replace(old, new): every non-overlapping occurrence, scanning from the left
RECURSIVE str_replace(_, _, _)
str_replace(s, old, new) ==
    IF Len(s) < Len(old) THEN s
    ELSE IF SubSeq(s, 1, Len(old)) = old
         THEN new \o str_replace(SubSeq(s, Len(old) + 1, Len(s)), old, new)
         ELSE <<Head(s)>> \o str_replace(Tail(s), old, new)

\* for remove in to_remove: s = s.replace(remove, "")
RECURSIVE remove_each(_, _)
remove_each(s, to_remove) ==
    IF to_remove = <<>> THEN s
    ELSE remove_each(str_replace(s, Head(to_remove), <<>>), Tail(to_remove))

\* mutant: only the dashes are removed
remove_dashes_only(isbn) == remove_each(isbn, << <<"-">> >>)

remove_dashes_and_spaces(isbn) == remove_each(isbn, << <<"-">>, <<" ">> >>)

remove_http(input_str) == remove_each(input_str, <<HTTPS, HTTP>>)

-----------------------------------------------------------------------------
(* Rich text *)

Styled(s, tag) == [i \in 1..Len(s) |-> [c |-> s[i], tag |-> tag]]
Plain(s) == Styled(s, "")
Tag(name, s) == Styled(s, name)
Chars(t) == [i \in 1..Len(t) |-> t[i].c]

Text(parts) == [kind |-> "text", parts |-> parts]
EmptyText == Text(<<>>)
HRef(url, text) == [kind |-> "href", url |-> url, text |-> text]
FieldIsMissing(name, entry) ==
    [kind |-> "error", error |-> "FieldIsMissing", name |-> name, key |-> entry.key]

\* Text(sep).join(parts)
RECURSIVE text_join(_, _)
text_join(sep, parts) ==
    IF parts = <<>> THEN <<>>
    ELSE IF Len(parts) = 1 THEN parts[1]
    ELSE parts[1] \o Plain(sep) \o text_join(sep, Tail(parts))

\* text.add_period(): nothing for an empty text or one that ends a sentence
add_period(t) ==
    IF t # <<>> /\ t[Len(t)].c \notin {".", "?", "!"}
    THEN t \o Plain(<<".">>)
    ELSE t

-----------------------------------------------------------------------------
(* Template nodes *)

\* an optional keyword argument: None, or the value given
None == <<>>
Some(x) == <<x>>

\* MyStyle.__init__: super().__init__(abbreviate_names=True)
abbreviate_names == TRUE

\* style.format_name(person, abbr): first names (abbreviated to an initial
\* and a period when abbr), a space (a tie in the library), the last name;
\* parts that are empty leave nothing behind
format_name(person, abbr) ==
    Plain((IF person.first = <<>> THEN <<>>
           ELSE (IF abbr THEN <<Head(person.first), ".">> ELSE person.first)
                \o (IF person.last = <<>> THEN <<>> ELSE <<" ">>))
          \o person.last)

\* [part for part in _format_list(children, data) if part]
non_empty_parts(children) == SelectSeq(children, LAMBDA part : part # <<>>)

\* mutant: the three-name branch taken for three or more names
et_al_no_truncation(children, sep, sep2, last_sep) ==
    LET parts == non_empty_parts(children)
    IN  IF Len(parts) <= 1 THEN text_join(<<>>, parts)
        ELSE IF Len(parts) = 2 THEN text_join(sep2[1], parts)
        ELSE text_join(last_sep[1],
                       <<text_join(sep, SubSeq(parts, 1, Len(parts) - 1)),
                         parts[Len(parts)]>>)

\* mutant: sep2 and last_sep exchanged
et_al_swapped(children, sep, sep2, last_sep) ==
    LET parts == non_empty_parts(children)
    IN  IF Len(parts) <= 1 THEN text_join(<<>>, parts)
        ELSE IF Len(parts) = 2 THEN text_join(last_sep[1], parts)
        ELSE IF Len(parts) = 3
             THEN text_join(sep2[1],
                            <<text_join(sep, SubSeq(parts, 1, Len(parts) - 1)),
                              parts[Len(parts)]>>)
        ELSE parts[1] \o Tag("em", ET_AL)

et_al(children, sep, sep2, last_sep) ==
    LET sep2_ == IF sep2 = None THEN sep ELSE sep2[1]
        last_sep_ == IF last_sep = None THEN sep ELSE last_sep[1]
        parts == non_empty_parts(children)
    IN  IF Len(parts) <= 1 THEN text_join(<<>>, parts)
        ELSE IF Len(parts) = 2 THEN text_join(sep2_, parts)
        ELSE IF Len(parts) = 3
             THEN text_join(last_sep_,
                            <<text_join(sep, SubSeq(parts, 1, Len(parts) - 1)),
                              parts[Len(parts)]>>)
        ELSE parts[1] \o Tag("em", ET_AL)

\* mutant: a role without persons is treated as an empty list of persons
names_swallow(entry, role, sep, sep2, last_sep) ==
    LET persons == IF role \in DOMAIN entry.persons THEN entry.persons[role] ELSE <<>>
        formatted_names ==
            [i \in 1..Len(persons) |-> format_name(persons[i], abbreviate_names)]
    IN  Text(et_al(formatted_names, sep, sep2, last_sep))

names(entry, role, sep, sep2, last_sep) ==
    IF role \notin DOMAIN entry.persons
    THEN FieldIsMissing(role, entry)
    ELSE LET persons == entry.persons[role]
             formatted_names ==
                 [i \in 1..Len(persons) |-> format_name(persons[i], abbreviate_names)]
         IN  Text(et_al(formatted_names, sep, sep2, last_sep))

\* sentence[child]: the child's text with a period added; an error raised
\* while the child is formatted passes through
sentence(child) ==
    IF child.kind = "error" THEN child ELSE Text(add_period(child.parts))

\* mutant: a missing field reads as the empty string
field_default(entry, name) ==
    IF name \in DOMAIN entry.fields
    THEN [kind |-> "str", s |-> entry.fields[name]]
    ELSE [kind |-> "str", s |-> <<>>]

\* field(name, raw=True, apply_func=f)
field(entry, name) ==
    IF name \in DOMAIN entry.fields
    THEN [kind |-> "str", s |-> entry.fields[name]]
    ELSE FieldIsMissing(name, entry)

-----------------------------------------------------------------------------
(* MyStyle *)

format_names(entry, role, as_sentence) ==
    LET formatted_names == names(entry, role, SEP, Some(SEP2), Some(LAST_SEP))
    IN  IF as_sentence THEN sentence(formatted_names) ELSE formatted_names

\* UnsrtStyle.format_eprint, reached through super()
UnsrtStyle_format_eprint(e) ==
    LET f == field(e, "eprint")
    IN  IF f.kind = "error" THEN f
        ELSE HRef(ARXIV_ABS \o f.s, ARXIV_LABEL \o f.s)

\* UnsrtStyle.format_doi, which MyStyle inherits unchanged
UnsrtStyle_format_doi(e) ==
    LET f == field(e, "doi")
    IN  IF f.kind = "error" THEN f
        ELSE HRef(DOI_ORG \o f.s, DOI_LABEL \o f.s)

\* mutant: the doi does not suppress the eprint
format_eprint_no_priority(e) == UnsrtStyle_format_eprint(e)

format_eprint(e) ==
    IF "doi" \in DOMAIN e.fields THEN EmptyText
    ELSE UnsrtStyle_format_eprint(e)

\* mutant: only the doi suppresses the url
format_url_doi_only(e) ==
    IF "doi" \in DOMAIN e.fields THEN EmptyText
    ELSE LET f == field(e, "url")
         IN  IF f.kind = "error" THEN f
             ELSE HRef(f.s, remove_http(f.s))

\* mutant: nothing suppresses the url
format_url_no_priority(e) ==
    LET f == field(e, "url")
    IN  IF f.kind = "error" THEN f
        ELSE HRef(f.s, remove_http(f.s))

\* mutant: a link built by an earlier call is kept and handed out again
format_url_stale(e) ==
    IF result.kind = "href" THEN result
    ELSE IF "doi" \in DOMAIN e.fields \/ "eprint" \in DOMAIN e.fields THEN EmptyText
    ELSE LET f == field(e, "url")
         IN  IF f.kind = "error" THEN f
             ELSE HRef(f.s, remove_http(f.s))

format_url(e) ==
    IF "doi" \in DOMAIN e.fields \/ "eprint" \in DOMAIN e.fields THEN EmptyText
    ELSE LET f == field(e, "url")
         IN  IF f.kind = "error" THEN f
             ELSE HRef(f.s, remove_http(f.s))

format_isbn(e) ==
    LET f == field(e, "isbn")
    IN  IF f.kind = "error" THEN f
        ELSE HRef(ISBN_SEARCH \o remove_dashes_and_spaces(f.s), ISBN_LABEL \o f.s)

-----------------------------------------------------------------------------
(* Entries *)

Roles == {"author", "editor"}
FieldNames == {"doi", "eprint", "isbn", "url"}

Entry(key, fields, persons) == [key |-> key, fields |-> fields, persons |-> persons]

NoFields == [f \in {} |-> <<>>]
NoPersons == [r \in {} |-> <<>>]

SeqsFromTo(S, lo, hi) == UNION {[1..n -> S] : n \in lo..hi}

RECURSIVE Flatten(_)
Flatten(pieces) == IF pieces = <<>> THEN <<>> ELSE Head(pieces) \o Flatten(Tail(pieces))

\* persons
pEmpty == [first |-> <<>>, last |-> <<>>]
pA == [first |-> <<>>, last |-> <<"A">>]
pB == [first |-> <<>>, last |-> <<"B">>]
pC == [first |-> <<>>, last |-> <<"C">>]
pD == [first |-> <<>>, last |-> <<"D">>]
pUma == [first |-> <<"U", "m", "a">>, last |-> <<"E", "k">>]
pJr == [first |-> <<>>, last |-> <<"J", "r", ".">>]
PersonPool == {pEmpty, pA, pUma, pJr}
ExampleLists == {<<pA>>, <<pA, pB>>, <<pA, pB, pC>>, <<pA, pB, pC, pD>>}
PersonLists == SeqsFromTo(PersonPool, 1, MaxPersons) \cup ExampleLists

\* field values
EXAMPLE_URL ==
    HTTPS \o <<"e", "x", "a", "m", "p", "l", "e", ".", "c", "o", "m", "/", "x">>
EXAMPLE_ISBN == <<"0", "-", "1", "3", "-", "4", "6", "8", "5", "9", "9", "-", "7">>
EXAMPLE_DOI == <<"1", "0", ".", "1", "/", "x">>
EXAMPLE_EPRINT == <<"2", "1", "0", "1", ".", "1">>
SampleValue ==
    [f \in FieldNames |->
        CASE f = "doi" -> EXAMPLE_DOI
          [] f = "eprint" -> EXAMPLE_EPRINT
          [] f = "isbn" -> EXAMPLE_ISBN
          [] f = "url" -> EXAMPLE_URL]
SampleFields(D) == [f \in D |-> SampleValue[f]]

UrlPieces == {HTTPS, HTTP, <<"a">>, <<"/">>}
NESTED_URL == HTTPS \o <<"a", "/">> \o HTTP \o <<"b">>
UrlSpace ==
    {Flatten(ps) : ps \in SeqsFromTo(UrlPieces, 1, MaxUrlPieces)}
        \cup {EXAMPLE_URL, NESTED_URL}
IsbnChars == {"0", "-", " "}
IsbnSpace == SeqsFromTo(IsbnChars, 1, MaxIsbnLen) \cup {EXAMPLE_ISBN}

\* the entries of each specification
GeneralEntries ==
    {Entry("e1", SampleFields(D), pm) :
        D \in SUBSET FieldNames,
        pm \in {NoPersons, [r \in {"author"} |-> <<pA, pUma>>],
                [r \in Roles |-> IF r = "author" THEN <<pA, pB, pC, pD>> ELSE <<pJr>>]}}
OtherEntries ==
    {Entry("e2", NoFields, NoPersons),
     Entry("e2", SampleFields({"url"}), [r \in {"editor"} |-> <<pB>>]),
     Entry("e2", SampleFields({"isbn", "eprint"}), [r \in {"author"} |-> <<pC, pD>>]),
     Entry("e2", SampleFields(FieldNames), [r \in Roles |-> <<pD>>])}
NamesEntries ==
    {Entry("e1", NoFields, pm) :
        pm \in {[r \in {"author"} |-> l] : l \in PersonLists}
               \cup {[r \in Roles |-> IF r = "editor" THEN l ELSE <<pB>>] : l \in PersonLists}}
UrlEntries ==
    {Entry("e1", fs, NoPersons) :
        fs \in UNION {{SampleFields(D), SampleFields(D) @@ ("url" :> u)} :
                        D \in SUBSET {"doi", "eprint"}, u \in UrlSpace}}
IsbnEntries ==
    {Entry("e1", SampleFields(D) @@ ("isbn" :> i), NoPersons) :
        D \in SUBSET {"doi", "eprint", "url"}, i \in IsbnSpace}

-----------------------------------------------------------------------------
(* The formatting calls *)

NoCall == [op |-> "none", key |-> "", role |-> "", as_sentence |-> FALSE]
NoResult == [kind |-> "none"]

InitRest ==
    /\ call = NoCall
    /\ result = NoResult
    /\ first = [call |-> NoCall, result |-> NoResult, others |-> FALSE]

Init ==
    /\ \E e1 \in GeneralEntries, e2 \in OtherEntries :
           entries = ("e1" :> e1) @@ ("e2" :> e2)
    /\ InitRest

InitNames ==
    /\ \E e1 \in NamesEntries : entries = ("e1" :> e1)
    /\ InitRest

InitUrl ==
    /\ \E e1 \in UrlEntries : entries = ("e1" :> e1)
    /\ InitRest

InitIsbn ==
    /\ \E e1 \in IsbnEntries : entries = ("e1" :> e1)
    /\ InitRest

\* a call c on a loaded entry produced r; the entries are only read
Returned(c, r) ==
    /\ call' = c
    /\ result' = r
    /\ first' = IF first.call = NoCall
                THEN [call |-> c, result |-> r, others |-> FALSE]
                ELSE [first EXCEPT !.others = @ \/ c.key # first.call.key]
    /\ UNCHANGED entries

FormatNames ==
    \E k \in DOMAIN entries, role \in Roles, as_sentence \in BOOLEAN :
        Returned([op |-> "format_names", key |-> k, role |-> role,
                  as_sentence |-> as_sentence],
                 format_names(entries[k], role, as_sentence))

IdCall(op, k) == [op |-> op, key |-> k, role |-> "", as_sentence |-> FALSE]

FormatEprint ==
    \E k \in DOMAIN entries :
        Returned(IdCall("format_eprint", k), format_eprint(entries[k]))

FormatUrl ==
    \E k \in DOMAIN entries :
        Returned(IdCall("format_url", k), format_url(entries[k]))

FormatIsbn ==
    \E k \in DOMAIN entries :
        Returned(IdCall("format_isbn", k), format_isbn(entries[k]))

Next == FormatNames \/ FormatEprint \/ FormatUrl \/ FormatIsbn

Spec == Init /\ [][Next]_vars
SpecNames == InitNames /\ [][Next]_vars
SpecUrl == InitUrl /\ [][Next]_vars
SpecIsbn == InitIsbn /\ [][Next]_vars

-----------------------------------------------------------------------------
(* Properties *)

CalledEntry == entries[call.key]
Present(f) == f \in DOMAIN CalledEntry.fields
Value(f) == CalledEntry.fields[f]
NamesReturned == call.op = "format_names" /\ call.role \in DOMAIN CalledEntry.persons

\* the rendered names of the requested role, the empty ones filtered out
RenderedNames ==
    LET persons == CalledEntry.persons[call.role]
    IN  SelectSeq([i \in 1..Len(persons) |-> format_name(persons[i], TRUE)],
                  LAMBDA n : n # <<>>)

Occurs(sub, s) ==
    \E i \in 1..(Len(s) - Len(sub) + 1) : SubSeq(s, i, i + Len(sub) - 1) = sub

EmphasizedEtAl == [i \in 1..Len(ET_AL) |-> [c |-> ET_AL[i], tag |-> "em"]]

\* C1: with 4 or more non-empty rendered names, format_names yields the
\* first rendered name followed by an emphasized " et al", and no second or
\* later name (other than a repetition of the first) appears in the result.
C1_EtAlTruncation ==
    (NamesReturned /\ Len(RenderedNames) >= 4) =>
        LET ns == RenderedNames
            lead == ns[1] \o EmphasizedEtAl
        IN  /\ result.kind = "text"
            /\ Len(result.parts) >= Len(lead)
            /\ SubSeq(result.parts, 1, Len(lead)) = lead
            /\ \A i \in 2..Len(ns) :
                   ns[i] # ns[1] => ~Occurs(Chars(ns[i]), Chars(result.parts))

C1_Witness ==
    /\ NamesReturned
    /\ Len(RenderedNames) >= 4
    /\ \E i \in 2..Len(RenderedNames) : RenderedNames[i] # RenderedNames[1]
    /\ result.kind = "text"
    /\ Occurs(ET_AL, Chars(result.parts))

\* the names joined as the rules for 0 to 3 names say
JoinedByCount(ns) ==
    CASE Len(ns) = 0 -> <<>>
      [] Len(ns) = 1 -> ns[1]
      [] Len(ns) = 2 -> ns[1] \o Plain(SEP2) \o ns[2]
      [] Len(ns) = 3 -> ns[1] \o Plain(SEP) \o ns[2] \o Plain(LAST_SEP) \o ns[3]

\* C2 as stated: with n <= 3 non-empty rendered names, format_names keeps
\* them in order and joins them by n: for n <= 1 the result has no separator,
\* for n = 2 it is "A and B", for n = 3 it is "A, B, and C".
C2_JoinedExactly ==
    (NamesReturned /\ Len(RenderedNames) <= 3) =>
        /\ result.kind = "text"
        /\ Len(RenderedNames) <= 1 =>
               /\ ~Occurs(SEP, Chars(result.parts))
               /\ ~Occurs(SEP2, Chars(result.parts))
        /\ Len(RenderedNames) >= 2 => result.parts = JoinedByCount(RenderedNames)

\* C2 amended: that holds when as_sentence is false; when as_sentence is
\* true the result is the same joined text with a closing period, which is
\* left out when the joined text is empty or already ends in ".", "?" or "!".
C2_JoinedThenSentence ==
    (NamesReturned /\ Len(RenderedNames) <= 3) =>
        LET joined == JoinedByCount(RenderedNames)
            closed == joined = <<>> \/ joined[Len(joined)].c \in {".", "?", "!"}
        IN  result = Text(IF call.as_sentence /\ ~closed
                          THEN joined \o <<[c |-> ".", tag |-> ""]>>
                          ELSE joined)

C2_Witness ==
    /\ NamesReturned
    /\ call.as_sentence
    /\ Len(RenderedNames) = 3
    /\ Len(CalledEntry.persons[call.role]) > 3
    /\ result.kind = "text"
    /\ Occurs(LAST_SEP, Chars(result.parts))

\* C3: format_names for a role the entry has no persons for fails with a
\* missing-field error naming the role and the entry; nothing else is returned.
C3_MissingRole ==
    (call.op = "format_names" /\ call.role \notin DOMAIN CalledEntry.persons) =>
        result = [kind |-> "error", error |-> "FieldIsMissing",
                  name |-> call.role, key |-> call.key]

C3_Witness ==
    /\ call.op = "format_names"
    /\ call.as_sentence
    /\ call.role = "editor"
    /\ DOMAIN CalledEntry.persons = {"author"}
    /\ result.kind = "error"

\* C4: format_eprint returns an empty fragment whenever doi is present and
\* exactly the inherited eprint formatting whenever doi is absent.
C4_EprintPrecedence ==
    call.op = "format_eprint" =>
        result = IF Present("doi") THEN [kind |-> "text", parts |-> <<>>]
                 ELSE UnsrtStyle_format_eprint(CalledEntry)

C4_Witness ==
    /\ call.op = "format_eprint"
    /\ Present("doi")
    /\ Present("eprint")
    /\ result = [kind |-> "text", parts |-> <<>>]

\* the url without its leading scheme
StripScheme(u) ==
    IF Len(u) >= Len(HTTPS) /\ SubSeq(u, 1, Len(HTTPS)) = HTTPS
    THEN SubSeq(u, Len(HTTPS) + 1, Len(u))
    ELSE IF Len(u) >= Len(HTTP) /\ SubSeq(u, 1, Len(HTTP)) = HTTP
    THEN SubSeq(u, Len(HTTP) + 1, Len(u))
    ELSE u

\* C5: with url present and neither doi nor eprint, format_url renders a
\* link to the unchanged url whose text is the url without its leading
\* http:// or https:// scheme, the rest of the url unchanged.
C5_OnlyLeadingSchemeStripped ==
    (call.op = "format_url" /\ Present("url") /\ ~Present("doi") /\ ~Present("eprint")) =>
        result = [kind |-> "href", url |-> Value("url"), text |-> StripScheme(Value("url"))]

\* C6: with doi or eprint present, format_url returns an empty fragment,
\* whatever the url and whether or not there is one.
C6_UrlSuppressed ==
    (call.op = "format_url" /\ (Present("doi") \/ Present("eprint"))) =>
        result = [kind |-> "text", parts |-> <<>>]

C6_Witness ==
    /\ call.op = "format_url"
    /\ ~Present("doi")
    /\ Present("eprint")
    /\ Present("url")
    /\ Value("url") # EXAMPLE_URL
    /\ result = [kind |-> "text", parts |-> <<>>]

\* C7: with isbn present, format_isbn renders a link, whatever other
\* identifier fields are present, to https://isbnsearch.org/isbn/ followed by
\* the isbn without its '-' and space characters and otherwise unchanged,
\* with the text "ISBN:" followed by the isbn as given.
C7_IsbnLink ==
    (call.op = "format_isbn" /\ Present("isbn")) =>
        result = [kind |-> "href",
                  url |-> ISBN_SEARCH
                          \o SelectSeq(Value("isbn"), LAMBDA c : c \notin {"-", " "}),
                  text |-> ISBN_LABEL \o Value("isbn")]

C7_Witness ==
    /\ call.op = "format_isbn"
    /\ Present("doi")
    /\ Present("isbn")
    /\ Value("isbn") = EXAMPLE_ISBN
    /\ result.kind = "href"
    /\ result.url = ISBN_SEARCH \o <<"0", "1", "3", "4", "6", "8", "5", "9", "9", "7">>

IdentifierOps == {"format_eprint", "format_isbn", "format_url"}
FieldOf(op) ==
    CASE op = "format_eprint" -> "eprint"
      [] op = "format_isbn" -> "isbn"
      [] op = "format_url" -> "url"

\* C8 as stated: formatting the fragment of an absent identifier field
\* (eprint, isbn, url) yields an empty fragment and signals no error.
C8_AbsentFieldIsEmpty ==
    (call.op \in IdentifierOps /\ ~Present(FieldOf(call.op))) =>
        result = [kind |-> "text", parts |-> <<>>]

\* C8 amended: formatting the fragment of an absent identifier field never
\* yields a non-empty fragment: it yields the empty fragment when a field of
\* higher priority suppresses it (doi for the eprint, doi or eprint for the
\* url) and otherwise signals a missing field naming the field and the entry.
C8_AbsentFieldEmptyOrMissing ==
    (call.op \in IdentifierOps /\ ~Present(FieldOf(call.op))) =>
        LET suppressed ==
                \/ call.op = "format_eprint" /\ Present("doi")
                \/ call.op = "format_url" /\ (Present("doi") \/ Present("eprint"))
        IN  result = IF suppressed THEN [kind |-> "text", parts |-> <<>>]
                     ELSE [kind |-> "error", error |-> "FieldIsMissing",
                           name |-> FieldOf(call.op), key |-> call.key]

C8_Witness ==
    /\ call.op = "format_isbn"
    /\ DOMAIN CalledEntry.fields = {}
    /\ result.kind = "error"
    /\ result.name = "isbn"

\* the fragment derived from field f of the entry formatted last
IdentifierFragment(f) ==
    IF call.op \in IdentifierOps /\ FieldOf(call.op) = f THEN result
    ELSE CASE f = "doi" -> UnsrtStyle_format_doi(CalledEntry)
           [] f = "eprint" -> format_eprint(CalledEntry)
           [] f = "isbn" -> format_isbn(CalledEntry)
           [] f = "url" -> format_url(CalledEntry)
RenderedFragments(fs) == {f \in fs : IdentifierFragment(f).kind = "href"}
Priority == <<"doi", "eprint", "isbn", "url">>
Highest(fs) ==
    Priority[CHOOSE i \in 1..Len(Priority) :
                 /\ Priority[i] \in fs
                 /\ \A j \in 1..(i - 1) : Priority[j] \notin fs]

\* C9 as stated: for an entry with at least one of doi, eprint, isbn, url,
\* exactly one of the four fragments is rendered, that of the present field
\* of highest priority.
C9_ExactlyOneOfFour ==
    (call.op \in IdentifierOps /\ DOMAIN CalledEntry.fields # {}) =>
        RenderedFragments(FieldNames) = {Highest(DOMAIN CalledEntry.fields)}

\* C9 amended: for an entry with at least one of doi, eprint, url, exactly
\* one of the DOI, eprint and URL fragments is rendered, that of the present
\* field of highest priority in the order doi, eprint, url; the ISBN
\* fragment is rendered besides it exactly when isbn is present.
C9_OneOfThreeAndIsbn ==
    call.op \in IdentifierOps =>
        LET three == DOMAIN CalledEntry.fields \ {"isbn"}
        IN  /\ three # {} => RenderedFragments(FieldNames \ {"isbn"}) = {Highest(three)}
            /\ three = {} => RenderedFragments(FieldNames \ {"isbn"}) = {}
            /\ RenderedFragments({"isbn"}) = DOMAIN CalledEntry.fields \cap {"isbn"}

C9_Witness ==
    /\ call.op = "format_isbn"
    /\ DOMAIN CalledEntry.fields = FieldNames
    /\ result.kind = "href"
    /\ RenderedFragments(FieldNames) = {"doi", "isbn"}

=============================================================================
